---- MODULE Spec2Model ----
(***************************************************************************)
(* Model of the favicon generator's server route                           *)
(* (src/app/api/generate/route.ts): the corner mask applyRoundedCorners as *)
(* a pure operator over RGBA byte buffers, and the POST handler as a state *)
(* machine with one action per awaited step.                               *)
(*                                                                         *)
(*   SpecMask : inputs of applyRoundedCorners drawn from bounded sets,     *)
(*              one action applying it, one applying it again.             *)
(*   Spec     : one request through POST, from formData() to the response. *)
(***************************************************************************)
EXTENDS Integers, Sequences, FiniteSets

VARIABLES
  \* ---- applyRoundedCorners (SpecMask) ----
  data,            \* the buffer handed to applyRoundedCorners (0-based bytes)
  width,           \* its width in pixels
  height,          \* its height in pixels
  maskRadius,      \* the radius argument
  result,          \* the buffer applyRoundedCorners returned
  maskPc,          \* "input", "masked" after the call, "remasked" after a second; "idle" in Spec
  heap,            \* the Buffer objects alive, by reference; heap[1] is the argument
  resultRef,       \* the reference applyRoundedCorners returned; 0 before the call
  again,           \* the buffer a second call, on result, returned
  \* ---- POST (Spec) ----
  request,         \* the multipart request as received
  pc,              \* the await the handler is suspended at
  radius,          \* const radius (line 51); -1 before it is assigned
  originalWidth,   \* line 60
  originalHeight,  \* line 61
  loopIndex,       \* position in the for..of loop the handler is in
  zip,             \* files added to the JSZip archive so far, in order
  icoInputBuffers, \* line 163
  maskCalls,       \* history: arguments of every applyRoundedCorners call
  steps,           \* history: the steps that have run, in order
  failedAt,        \* history: number of variants computed when a step threw; -1 if none
  response,        \* the HTTP response; status 0 while none was returned
  metadata,        \* what image.metadata() resolved to (0: the field is missing)
  baseBuffer,      \* const baseBuffer (line 69)
  \* ---- Home (SpecPage), src/app/page.tsx ----
  file,            \* useState file
  error,           \* useState error
  generatedCode,   \* useState generatedCode
  isGenerating,    \* useState isGenerating
  pagePc,          \* the await handleGenerate is suspended at; "idle" if none
  selectedFile,    \* history: the argument of the last handleFile call
  lastPath         \* history: how the last finished handleGenerate ended

maskVars == <<data, width, height, maskRadius, result, maskPc, heap, resultRef, again>>
postVars == <<request, pc, radius, originalWidth, originalHeight, loopIndex,
              zip, icoInputBuffers, maskCalls, steps, failedAt, response,
              metadata, baseBuffer>>
pageVars == <<file, error, generatedCode, isGenerating, pagePc, selectedFile, lastPath>>
vars == <<maskVars, postVars, pageVars>>

(***************************************************************************)
(* Bounds of the model                                                     *)
(***************************************************************************)
\* largest buffer width and height drawn in SpecMask
MaxDim == 10
\* largest radius argument drawn in SpecMask (beyond MaxDim/2 on purpose)
MaxRadius == 6
\* target sizes 1..MaxTarget are compared besides the sizes the route produces
MaxTarget == 24

Min2(a, b) == IF a < b THEN a ELSE b
Max2(a, b) == IF a > b THEN a ELSE b

(***************************************************************************)
(* applyRoundedCorners                                                     *)
(***************************************************************************)
\* The input buffers: RGBA8, 4 bytes per pixel, row-major.
Fills == {"red", "gradient", "clear", "checker"}

FillPixel(f, x, y) ==
  CASE f = "red"      -> <<255, 0, 0, 255>>
    [] f = "gradient" -> <<(x * 40 + 7) % 256, (y * 40 + 11) % 256,
                           ((x + y) * 17 + 1) % 256, 255 - ((x * 13 + y * 29) % 200)>>
    [] f = "clear"    -> <<10, 20, 30, 0>>
    [] f = "checker"  -> <<200, 100, 50, IF (x + y) % 2 = 0 THEN 128 ELSE 0>>

SourceBuffer(f, w, h) ==
  [i \in 0..(w * h * 4 - 1) |->
     FillPixel(f, (i \div 4) % w, (i \div 4) \div w)[(i % 4) + 1]]

\* const idx = (y * width + x) * 4
PixelIndex(x, y, w) == (y * w + x) * 4

\* Mutant: the arc test written with >= (the boundary pixel is cut)
ShouldBeTransparentInclusive(x, y, w, h, r) ==
  \/ /\ x < r /\ y < r
     /\ (r - x) * (r - x) + (r - y) * (r - y) >= r * r
  \/ /\ x >= w - r /\ y < r
     /\ (x - (w - r - 1)) * (x - (w - r - 1)) + (r - y) * (r - y) >= r * r
  \/ /\ x < r /\ y >= h - r
     /\ (r - x) * (r - x) + (y - (h - r - 1)) * (y - (h - r - 1)) >= r * r
  \/ /\ x >= w - r /\ y >= h - r
     /\ (x - (w - r - 1)) * (x - (w - r - 1))
          + (y - (h - r - 1)) * (y - (h - r - 1)) >= r * r


\* Mutant: the top-right dx written x - (width - r), without the - 1
ShouldBeTransparentShifted(x, y, w, h, r) ==
  \/ /\ x < r /\ y < r
     /\ (r - x) * (r - x) + (r - y) * (r - y) > r * r
  \/ /\ x >= w - r /\ y < r
     /\ (x - (w - r)) * (x - (w - r)) + (r - y) * (r - y) > r * r
  \/ /\ x < r /\ y >= h - r
     /\ (r - x) * (r - x) + (y - (h - r - 1)) * (y - (h - r - 1)) > r * r
  \/ /\ x >= w - r /\ y >= h - r
     /\ (x - (w - r - 1)) * (x - (w - r - 1))
          + (y - (h - r - 1)) * (y - (h - r - 1)) > r * r


\* Mutant: the arcs centred one pixel further in, at (r - 1, r - 1) and its
\* mirror images
ShouldBeTransparentCentred(x, y, w, h, r) ==
  \/ /\ x < r /\ y < r
     /\ (r - 1 - x) * (r - 1 - x) + (r - 1 - y) * (r - 1 - y) > r * r
  \/ /\ x >= w - r /\ y < r
     /\ (x - (w - r)) * (x - (w - r)) + (r - 1 - y) * (r - 1 - y) > r * r
  \/ /\ x < r /\ y >= h - r
     /\ (r - 1 - x) * (r - 1 - x) + (y - (h - r)) * (y - (h - r)) > r * r
  \/ /\ x >= w - r /\ y >= h - r
     /\ (x - (w - r)) * (x - (w - r)) + (y - (h - r)) * (y - (h - r)) > r * r

\* let shouldBeTransparent, as the four corner checks leave it for pixel (x, y)
ShouldBeTransparent(x, y, w, h, r) ==
  \/ /\ x < r /\ y < r
     /\ LET dx == r - x
            dy == r - y
        IN dx * dx + dy * dy > r * r
  \/ /\ x >= w - r /\ y < r
     /\ LET dx == x - (w - r - 1)
            dy == r - y
        IN dx * dx + dy * dy > r * r
  \/ /\ x < r /\ y >= h - r
     /\ LET dx == r - x
            dy == y - (h - r - 1)
        IN dx * dx + dy * dy > r * r
  \/ /\ x >= w - r /\ y >= h - r
     /\ LET dx == x - (w - r - 1)
            dy == y - (h - r - 1)
        IN dx * dx + dy * dy > r * r


Corners == {"TL", "TR", "BL", "BR"}

\* Mutant: the corner squares written with <= and > (one pixel wider)
CornerGuardInclusive(c, x, y, w, h, r) ==
  CASE c = "TL" -> x <= r /\ y <= r
    [] c = "TR" -> x > w - r - 2 /\ y <= r
    [] c = "BL" -> x <= r /\ y > h - r - 2
    [] c = "BR" -> x > w - r - 2 /\ y > h - r - 2

\* The conditions of the four corner ifs (lines 325, 334, 343, 352): whether
\* pixel (x, y) lies in the corner square that the if tests
CornerGuard(c, x, y, w, h, r) ==
  CASE c = "TL" -> x < r /\ y < r
    [] c = "TR" -> x >= w - r /\ y < r
    [] c = "BL" -> x < r /\ y >= h - r
    [] c = "BR" -> x >= w - r /\ y >= h - r

\* Mutant: a falsy radius falls back to the default 40 (the || of line 51)
applyRoundedCornersDefaulted(buf, w, h, r) ==
  LET rr == IF r = 0 THEN 40 ELSE r
  IN [i \in DOMAIN buf |->
        IF i % 4 = 3 /\ ShouldBeTransparent((i \div 4) % w, (i \div 4) \div w, w, h, rr)
        THEN 0 ELSE buf[i]]

\* Mutant: the write goes to result[idx] (red) instead of result[idx + 3]
applyRoundedCornersWrongChannel(buf, w, h, r) ==
  IF r = 0 THEN buf
  ELSE [i \in DOMAIN buf |->
          IF i % 4 = 0 /\ ShouldBeTransparent((i \div 4) % w, (i \div 4) \div w, w, h, r)
          THEN 0 ELSE buf[i]]


\* Mutant: a soft edge, the alpha of a cut pixel halved instead of cleared
applyRoundedCornersHalved(buf, w, h, r) ==
  IF r = 0 THEN buf
  ELSE [i \in DOMAIN buf |->
          IF /\ i = PixelIndex((i \div 4) % w, (i \div 4) \div w, w) + 3
             /\ ShouldBeTransparent((i \div 4) % w, (i \div 4) \div w, w, h, r)
          THEN buf[i] \div 2 ELSE buf[i]]

\* The loops visit every pixel (x, y) once and write only result[idx + 3], so
\* byte i of the result is 0 when i = idx + 3 of a pixel whose
\* shouldBeTransparent is true, and the copied byte of data otherwise.
applyRoundedCorners(buf, w, h, r) ==
  IF r = 0 THEN buf
  ELSE [i \in DOMAIN buf |->
          IF /\ i = PixelIndex((i \div 4) % w, (i \div 4) \div w, w) + 3
             /\ ShouldBeTransparent((i \div 4) % w, (i \div 4) \div w, w, h, r)
          THEN 0 ELSE buf[i]]

(***************************************************************************)
(* applyRoundedCorners on Buffer objects (aliasing and copies)             *)
(***************************************************************************)

\* Mutant: const result = data (the same Buffer object, no copy)
BufferFromAlias(h, ref) == [heap |-> h, ref |-> ref]

\* const result = Buffer.from(data): a new Buffer holding a copy of the bytes
BufferFrom(h, ref) == [heap |-> Append(h, h[ref]), ref |-> Len(h) + 1]

\* applyRoundedCorners on Buffer objects: which object it returns and what
\* every object holds afterwards.  radius 0 returns the argument itself;
\* otherwise the loops write into the copy made on line 314.
applyRoundedCornersCall(h, dataRef, w, hgt, r) ==
  IF r = 0 THEN [heap |-> h, ref |-> dataRef]
  ELSE LET made == BufferFrom(h, dataRef)
       IN [heap |-> [made.heap EXCEPT
                       ![made.ref] = applyRoundedCorners(made.heap[made.ref], w, hgt, r)],
           ref |-> made.ref]

(***************************************************************************)
(* SpecMask: applyRoundedCorners on inputs drawn from bounded sets         *)
(***************************************************************************)

Absent == [present |-> FALSE, val |-> ""]
NoRequest == [body |-> "none", hasFile |-> FALSE, size |-> 0, type |-> "",
              radiusStr |-> [kind |-> "null", val |-> 0],
              appName |-> Absent, shortName |-> Absent, themeColor |-> Absent]
NoResponse == [status |-> 0, kind |-> "none", files |-> <<>>]
NoMetadata == [width |-> 0, height |-> 0]
NoBuffer == [made |-> FALSE, svg |-> FALSE]
NoFile == [type |-> "", size |-> 0, present |-> FALSE]

PostIdle ==
  /\ request = NoRequest
  /\ pc = "idle"
  /\ radius = -1
  /\ originalWidth = 0
  /\ originalHeight = 0
  /\ loopIndex = 0
  /\ zip = <<>>
  /\ icoInputBuffers = <<>>
  /\ maskCalls = <<>>
  /\ steps = <<>>
  /\ failedAt = -1
  /\ response = NoResponse
  /\ metadata = NoMetadata
  /\ baseBuffer = NoBuffer

PageIdle ==
  /\ file = NoFile
  /\ error = "null"
  /\ generatedCode = "null"
  /\ isGenerating = FALSE
  /\ pagePc = "off"
  /\ selectedFile = NoFile
  /\ lastPath = "none"

InitMask ==
  /\ width \in 1..MaxDim
  /\ height \in 1..MaxDim
  /\ maskRadius \in 0..MaxRadius
  /\ \E f \in Fills : data = SourceBuffer(f, width, height)
  /\ result = <<>>
  /\ maskPc = "input"
  /\ heap = <<data>>
  /\ resultRef = 0
  /\ again = <<>>
  /\ PostIdle
  /\ PageIdle

\* const processedBuffer = applyRoundedCorners(rawData, info.width, info.height, effectiveRadius)
ApplyMask ==
  /\ maskPc = "input"
  /\ result' = applyRoundedCorners(data, width, height, maskRadius)
  /\ LET call == applyRoundedCornersCall(heap, 1, width, height, maskRadius)
     IN heap' = call.heap /\ resultRef' = call.ref
  /\ maskPc' = "masked"
  /\ UNCHANGED <<data, width, height, maskRadius, again, postVars, pageVars>>

\* applyRoundedCorners(processedBuffer, info.width, info.height,
\* effectiveRadius): the function called once more, on the buffer it returned
ApplyMaskAgain ==
  /\ maskPc = "masked"
  /\ again' = applyRoundedCorners(result, width, height, maskRadius)
  /\ LET call == applyRoundedCornersCall(heap, resultRef, width, height, maskRadius)
     IN heap' = call.heap /\ resultRef' = call.ref
  /\ maskPc' = "remasked"
  /\ UNCHANGED <<data, width, height, maskRadius, result, postVars, pageVars>>

NextMask == ApplyMask \/ ApplyMaskAgain

SpecMask == InitMask /\ [][NextMask]_vars

(***************************************************************************)
(* Claims about applyRoundedCorners (checked under SpecMask)               *)
(***************************************************************************)
Pixels == {<<x, y>> \in (0..(width - 1)) \X (0..(height - 1)) : TRUE}
AlphaAt(buf, x, y) == buf[(y * width + x) * 4 + 3]
HalfMin == Min2(width, height) \div 2

\* C1: with radius 0 the returned buffer is byte-identical to the input:
\* no byte of any pixel, alpha included, is changed.
C1_RadiusZeroIdentity ==
  (maskPc = "masked" /\ maskRadius = 0) =>
     /\ DOMAIN result = DOMAIN data
     /\ \A i \in DOMAIN data : result[i] = data[i]

\* a radius-0 call has returned on a buffer whose corner pixel is opaque
C1_Witness ==
  /\ maskPc = "masked" /\ maskRadius = 0
  /\ width >= 2 /\ height >= 2
  /\ AlphaAt(data, 0, 0) = 255
  /\ AlphaAt(result, 0, 0) = 255

\* The claim's own reading of the four corner tests.
InTopLeft(x, y, r)     == x < r /\ y < r
InTopRight(x, y, r)    == x >= width - r /\ y < r
InBottomLeft(x, y, r)  == x < r /\ y >= height - r
InBottomRight(x, y, r) == x >= width - r /\ y >= height - r
InCornerSquare(x, y, r) ==
  InTopLeft(x, y, r) \/ InTopRight(x, y, r) \/ InBottomLeft(x, y, r) \/ InBottomRight(x, y, r)
Sq(n) == n * n
\* dx*dx + dy*dy of a pixel in the (unique, for r <= HalfMin) corner square it lies in
CornerDist2(x, y, r) ==
  CASE InTopLeft(x, y, r)     -> Sq(r - x) + Sq(r - y)
    [] InTopRight(x, y, r)    -> Sq(x - (width - r - 1)) + Sq(r - y)
    [] InBottomLeft(x, y, r)  -> Sq(r - x) + Sq(y - (height - r - 1))
    [] InBottomRight(x, y, r) -> Sq(x - (width - r - 1)) + Sq(y - (height - r - 1))

\* C2: for 0 <= r <= floor(min(width,height)/2) the output alpha of pixel
\* (x,y) is 0 when the pixel lies in a corner square and dx*dx + dy*dy > r*r,
\* and the input alpha otherwise (so a pixel with dx*dx + dy*dy = r*r keeps it).
C2_MaskFormula ==
  (maskPc = "masked" /\ maskRadius <= HalfMin) =>
     \A p \in Pixels :
        AlphaAt(result, p[1], p[2]) =
          IF /\ InCornerSquare(p[1], p[2], maskRadius)
             /\ CornerDist2(p[1], p[2], maskRadius) > Sq(maskRadius)
          THEN 0
          ELSE AlphaAt(data, p[1], p[2])

\* a masked buffer with a pixel exactly on the arc (kept) and a cut corner pixel
C2_Witness ==
  /\ maskPc = "masked" /\ maskRadius >= 1 /\ maskRadius <= HalfMin
  /\ \E p \in Pixels :
        /\ InCornerSquare(p[1], p[2], maskRadius)
        /\ CornerDist2(p[1], p[2], maskRadius) = Sq(maskRadius)
        /\ AlphaAt(data, p[1], p[2]) > 0
        /\ AlphaAt(result, p[1], p[2]) = AlphaAt(data, p[1], p[2])
  /\ AlphaAt(data, 0, 0) > 0
  /\ AlphaAt(result, 0, 0) = 0

\* C3: for every radius the red, green and blue bytes of every pixel are
\* unchanged, and all four bytes of a pixel outside all four corner squares
\* are unchanged: only alpha bytes of pixels inside a corner square can differ.
C3_OnlyCornerAlphaChanges ==
  maskPc = "masked" =>
     /\ DOMAIN result = DOMAIN data
     /\ \A i \in DOMAIN data :
          result[i] # data[i] =>
             /\ i % 4 = 3
             /\ InCornerSquare((i \div 4) % width, (i \div 4) \div width, maskRadius)

\* a mask with overlapping corner squares (radius above the half dimension)
\* has changed some alpha byte
C3_Witness ==
  /\ maskPc = "masked" /\ maskRadius > HalfMin
  /\ width >= 3 /\ height >= 3
  /\ \E i \in DOMAIN data : result[i] # data[i]

(***************************************************************************)
(* POST: constants and pure helpers                                        *)
(***************************************************************************)
MAX_FILE_SIZE == 10 * 1024 * 1024

\* Object.entries(PUBLIC_SIZES), in insertion order; a path is kept as its
\* folder and its file name, so that filepath.replace("public/", "") is .name
PUBLIC_SIZES ==
  << [dir |-> "public", name |-> "favicon-16x16.png", size |-> 16],
     [dir |-> "public", name |-> "favicon-32x32.png", size |-> 32],
     [dir |-> "public", name |-> "favicon-48x48.png", size |-> 48],
     [dir |-> "public", name |-> "apple-touch-icon.png", size |-> 180],
     [dir |-> "public", name |-> "android-chrome-192x192.png", size |-> 192],
     [dir |-> "public", name |-> "android-chrome-512x512.png", size |-> 512],
     [dir |-> "public", name |-> "opengraph-image.png", size |-> 1200] >>

APP_SIZES ==
  << [dir |-> "src/app", name |-> "icon.png", size |-> 32],
     [dir |-> "src/app", name |-> "apple-icon.png", size |-> 180] >>


\* Mutant: the ICO sizes listed largest first
ICO_SIZES_Reversed == <<48, 32, 16>>

ICO_SIZES == <<16, 32, 48>>

\* Mutant: one more type let through
validTypesWithGif == {"image/png", "image/jpeg", "image/jpg", "image/svg+xml", "image/gif"}

validTypes == {"image/png", "image/jpeg", "image/jpg", "image/svg+xml"}

\* ---- the request's inputs ----
\* The radius field: absent, "", a non-numeric string, or an integer (the
\* client sends radius.toString() of its integer range slider, page.tsx:87).
Null == [kind |-> "null", val |-> 0]
RadiusFields ==
  {Null, [kind |-> "empty", val |-> 0], [kind |-> "text", val |-> 0]}
    \cup {[kind |-> "int", val |-> v] : v \in {-5, 0, 1, 40, 95, 256, 257, 1000}}
FileSizes == {0, MAX_FILE_SIZE, MAX_FILE_SIZE + 1}
FileTypes == {"image/png", "image/jpeg", "image/jpg", "image/svg+xml", "image/gif", ""}
\* metadata.width / metadata.height; 0 stands for a missing (falsy) value
MetaDims == {0, 1, 100, 152, 192, 512, 4000}

\* The text fields appName, shortName, themeColor: absent, "" or a text
Given(str) == [present |-> TRUE, val |-> str]
TextFields ==
  { [appName |-> Absent, shortName |-> Absent, themeColor |-> Absent],
    [appName |-> Given(""), shortName |-> Given(""), themeColor |-> Given("")],
    [appName |-> Given("Acme Tools"), shortName |-> Given("Acme"),
     themeColor |-> Given("#ff0000")],
    [appName |-> Given("My \"App\""), shortName |-> Absent, themeColor |-> Given("red")] }

Requests ==
  {[body |-> "malformed", hasFile |-> FALSE, size |-> 0, type |-> "", radiusStr |-> Null,
    appName |-> Absent, shortName |-> Absent, themeColor |-> Absent]}
    \cup {[body |-> "form", hasFile |-> FALSE, size |-> 0, type |-> "", radiusStr |-> r,
            appName |-> Absent, shortName |-> Absent, themeColor |-> Absent] :
            r \in RadiusFields}
    \cup {[body |-> "form", hasFile |-> TRUE, size |-> sz, type |-> t, radiusStr |-> r,
            appName |-> tf.appName, shortName |-> tf.shortName,
            themeColor |-> tf.themeColor] :
            sz \in FileSizes, t \in FileTypes, r \in RadiusFields, tf \in TextFields}

\* (formData.get(name) as string) || fallback: null and "" are falsy
OrDefault(field, fallback) ==
  IF ~field.present \/ field.val = "" THEN fallback ELSE field.val

\* line 33
appName == OrDefault(request.appName, "My App")

\* Mutant: short_name taken from the appName field
shortNameFromAppName == OrDefault(request.appName, "App")

\* line 34
shortName == OrDefault(request.shortName, "App")

\* line 35
themeColor == OrDefault(request.themeColor, "#6366f1")

JsonError(status) == [status |-> status, kind |-> "json", files |-> <<>>]

\* Mutant: the size check written with >=
ValidateInclusive(req) ==
  IF ~req.hasFile THEN 400
  ELSE IF req.size >= MAX_FILE_SIZE THEN 400
  ELSE IF req.type \notin validTypes THEN 400
  ELSE 0

\* The three validation returns of lines 38-49: the status returned, 0 if none
Validate(req) ==
  IF ~req.hasFile THEN 400
  ELSE IF req.size > MAX_FILE_SIZE THEN 400
  ELSE IF req.type \notin validTypes THEN 400
  ELSE 0

\* Number(radiusStr): null and "" give 0, a non-numeric string gives NaN
Number(str) ==
  CASE str.kind = "null"  -> [nan |-> FALSE, val |-> 0]
    [] str.kind = "empty" -> [nan |-> FALSE, val |-> 0]
    [] str.kind = "text"  -> [nan |-> TRUE, val |-> 0]
    [] str.kind = "int"   -> [nan |-> FALSE, val |-> str.val]

\* Mutant: the upper clamp Math.min(256, ...) left out
RadiusOfUnclamped(radiusStr) ==
  LET n == Number(radiusStr)
      v == IF n.nan \/ n.val = 0 THEN 40 ELSE n.val
  IN Max2(0, v)

\* Math.max(0, Math.min(256, Number(radiusStr) || 40)): NaN and 0 are falsy
RadiusOf(radiusStr) ==
  LET n == Number(radiusStr)
      v == IF n.nan \/ n.val = 0 THEN 40 ELSE n.val
  IN Max2(0, Min2(256, v))

(***************************************************************************)
(* POST: radius scaling and the variants                                   *)
(***************************************************************************)
\* const previewBaseSize = Math.min(originalWidth, originalHeight, 192)
previewBaseSize == Min2(Min2(originalWidth, originalHeight), 192)

\* The (radius, min(targetWidth, targetHeight), previewBaseSize) triples, among
\* integer radii 0..256, the sizes 16, 32, 48, 180, 192, 512 and reference
\* sizes 1..192, at which the IEEE-754 double radius * (m / ref) falls just
\* below the exact tie k + 0.5 (112.49999999999999 for 95 * (180 / 152)), so
\* that Math.round gives k where exact arithmetic gives k + 1.  On the radii
\* {0, 1, 40, 95, 256} and reference sizes {1, 100, 152, 192} that the drawn
\* requests give, no target size 1..65 adds a triple.
DoubleTieLost == {<<95, 180, 152>>, <<171, 180, 152>>, <<209, 180, 152>>}


\* Mutant: the ratio inverted, radius * (previewBaseSize / m)
MathRoundScaledInverted(r, m, ref) == (2 * r * ref + m) \div (2 * m)

\* Math.round(r * (m / ref)): round half up of the double product
MathRoundScaled(r, m, ref) ==
  IF <<r, m, ref>> \in DoubleTieLost
  THEN (r * m) \div ref
  ELSE (2 * r * m + ref) \div (2 * ref)

\* Mutant: effectiveRadius without the Math.min clamp
resizeAndApplyRoundedCornersUnclamped(size, isOgp) ==
  LET targetWidth  == IF isOgp THEN 1200 ELSE size
      targetHeight == IF isOgp THEN 630 ELSE size
  IN [width |-> targetWidth, height |-> targetHeight,
      fit |-> IF isOgp THEN "contain" ELSE "cover",
      targetWidth |-> targetWidth, targetHeight |-> targetHeight,
      masked |-> TRUE, source |-> baseBuffer,
      radius |-> MathRoundScaled(radius, Min2(targetWidth, targetHeight), previewBaseSize)]

\* resizeAndApplyRoundedCorners(size, isOgp): the PNG it returns, described by
\* its dimensions (info.width, info.height: resize gives exactly the target
\* box), its fit policy and the radius handed to applyRoundedCorners
resizeAndApplyRoundedCorners(size, isOgp) ==
  LET targetWidth  == IF isOgp THEN 1200 ELSE size
      targetHeight == IF isOgp THEN 630 ELSE size
      info == [width |-> targetWidth, height |-> targetHeight]
      scaledRadius ==
        MathRoundScaled(radius, Min2(targetWidth, targetHeight), previewBaseSize)
      effectiveRadius == Min2(scaledRadius, Min2(info.width, info.height) \div 2)
  IN [width |-> info.width, height |-> info.height,
      fit |-> IF isOgp THEN "contain" ELSE "cover",
      targetWidth |-> targetWidth, targetHeight |-> targetHeight,
      masked |-> TRUE, source |-> baseBuffer,
      radius |-> effectiveRadius]

\* Mutant: the OGP image routed through resizeAndApplyRoundedCorners(size, true)
PublicVariantOgpMasked(entry) ==
  resizeAndApplyRoundedCorners(entry.size, entry.name = "opengraph-image.png")

\* The body of the PUBLIC_SIZES loop (lines 135-152): the image put in the file
PublicVariant(entry) ==
  LET filename == entry.name
      isOgp == filename = "opengraph-image.png"
  IN IF isOgp
     THEN [width |-> 1200, height |-> 630, fit |-> "contain",
           targetWidth |-> 1200, targetHeight |-> 630,
           masked |-> FALSE, source |-> baseBuffer, radius |-> 0]
     ELSE resizeAndApplyRoundedCorners(entry.size, FALSE)

PngFile(dir, name, image) == [dir |-> dir, name |-> name, kind |-> "png", content |-> image]

\* the call applyRoundedCorners(rawData, info.width, info.height, effectiveRadius)
\* made while the image was produced, if any
MaskCallsOf(image) ==
  IF image.masked
  THEN << [width |-> image.width, height |-> image.height,
           targetWidth |-> image.targetWidth, targetHeight |-> image.targetHeight,
           radius |-> image.radius] >>
  ELSE << >>


\* Mutant: the README radius without the Math.min(displayRadius, 256) clamp
effectiveDisplayRadiusUnclamped == MathRoundScaled(radius, 512, previewBaseSize)

\* lines 196-198
effectiveDisplayRadius == Min2(MathRoundScaled(radius, 512, previewBaseSize), 256)

(***************************************************************************)
(* POST: one action per await of the handler.  pc names the await the      *)
(* handler is suspended at; an action is that await resolving and the code *)
(* running up to the next await (or to the return).                        *)
(***************************************************************************)
MaskIdle ==
  /\ data = <<>> /\ width = 0 /\ height = 0 /\ maskRadius = 0
  /\ result = <<>> /\ maskPc = "idle"
  /\ heap = <<>> /\ resultRef = 0 /\ again = <<>>

Init ==
  /\ request \in Requests
  /\ pc = "formData"
  /\ radius = -1
  /\ originalWidth = 0
  /\ originalHeight = 0
  /\ loopIndex = 0
  /\ zip = <<>>
  /\ icoInputBuffers = <<>>
  /\ maskCalls = <<>>
  /\ steps = <<"formData">>
  /\ failedAt = -1
  /\ response = NoResponse
  /\ metadata = NoMetadata
  /\ baseBuffer = NoBuffer
  /\ MaskIdle
  /\ PageIdle

\* lines 30-54: formData() resolves; validation; radius; file.arrayBuffer() is awaited
FormData ==
  /\ pc = "formData"
  /\ request.body = "form"
  /\ IF Validate(request) # 0
     THEN /\ response' = JsonError(Validate(request))
          /\ pc' = "done"
          /\ UNCHANGED <<radius, steps>>
     ELSE /\ radius' = RadiusOf(request.radiusStr)
          /\ pc' = "arrayBuffer"
          /\ steps' = Append(steps, "arrayBuffer")
          /\ UNCHANGED response
  /\ UNCHANGED <<request, originalWidth, originalHeight, loopIndex, zip,
                 icoInputBuffers, maskCalls, failedAt, metadata, baseBuffer, maskVars, pageVars>>

\* lines 54-59: the bytes are read; sharp(inputBuffer).metadata() is awaited
ArrayBuffer ==
  /\ pc = "arrayBuffer"
  /\ pc' = "metadata"
  /\ steps' = Append(steps, "metadata")
  /\ UNCHANGED <<request, radius, originalWidth, originalHeight, loopIndex, zip,
                 icoInputBuffers, maskCalls, failedAt, response, metadata, baseBuffer, maskVars, pageVars>>


\* Mutant: metadata.width and metadata.height used without the || 512 default
MetadataNoDefault ==
  /\ pc = "metadata"
  /\ \E w \in MetaDims, h \in MetaDims :
        /\ metadata' = [width |-> w, height |-> h]
        /\ originalWidth' = w
        /\ originalHeight' = h
  /\ pc' = "toBuffer"
  /\ steps' = Append(steps, "toBuffer")
  /\ UNCHANGED <<request, radius, loopIndex, zip, icoInputBuffers, maskCalls,
                 failedAt, response, baseBuffer, maskVars, pageVars>>

\* lines 59-69: metadata resolves (width || 512, height || 512); the SVG
\* branch; image.ensureAlpha().png().toBuffer() is awaited
Metadata ==
  /\ pc = "metadata"
  /\ \E w \in MetaDims, h \in MetaDims :
        /\ metadata' = [width |-> w, height |-> h]
        /\ originalWidth' = (IF w = 0 THEN 512 ELSE w)
        /\ originalHeight' = (IF h = 0 THEN 512 ELSE h)
  /\ pc' = "toBuffer"
  /\ steps' = Append(steps, "toBuffer")
  /\ UNCHANGED <<request, radius, loopIndex, zip, icoInputBuffers, maskCalls,
                 failedAt, response, baseBuffer, maskVars, pageVars>>

\* lines 69-134: baseBuffer is there; the zip and its folders; the first
\* iteration of the PUBLIC_SIZES loop awaits its image
ToBuffer ==
  /\ pc = "toBuffer"
  /\ baseBuffer' = [made |-> TRUE, svg |-> request.type = "image/svg+xml"]
  /\ pc' = "public"
  /\ loopIndex' = 1
  /\ steps' = Append(steps, "public")
  /\ UNCHANGED <<request, radius, originalWidth, originalHeight, zip,
                 icoInputBuffers, maskCalls, failedAt, response, metadata,
                 maskVars, pageVars>>

\* lines 134-153: one iteration of the PUBLIC_SIZES loop
PublicStep ==
  /\ pc = "public"
  /\ LET entry == PUBLIC_SIZES[loopIndex]
         image == PublicVariant(entry)
     IN /\ zip' = Append(zip, PngFile("public", entry.name, image))
        /\ maskCalls' = maskCalls \o MaskCallsOf(image)
  /\ IF loopIndex < Len(PUBLIC_SIZES)
     THEN /\ loopIndex' = loopIndex + 1
          /\ pc' = "public"
          /\ steps' = Append(steps, "public")
     ELSE /\ loopIndex' = 1
          /\ pc' = "app"
          /\ steps' = Append(steps, "app")
  /\ UNCHANGED <<request, radius, originalWidth, originalHeight, icoInputBuffers,
                 failedAt, response, metadata, baseBuffer, maskVars, pageVars>>

\* lines 156-160: one iteration of the APP_SIZES loop
AppStep ==
  /\ pc = "app"
  /\ LET entry == APP_SIZES[loopIndex]
         image == resizeAndApplyRoundedCorners(entry.size, FALSE)
     IN /\ zip' = Append(zip, PngFile("src/app", entry.name, image))
        /\ maskCalls' = maskCalls \o MaskCallsOf(image)
  /\ IF loopIndex < Len(APP_SIZES)
     THEN /\ loopIndex' = loopIndex + 1
          /\ pc' = "app"
          /\ steps' = Append(steps, "app")
     ELSE /\ loopIndex' = 1
          /\ pc' = "ico"
          /\ steps' = Append(steps, "ico")
  /\ UNCHANGED <<request, radius, originalWidth, originalHeight, icoInputBuffers,
                 failedAt, response, metadata, baseBuffer, maskVars, pageVars>>

\* lines 163-167: one iteration of the ICO_SIZES loop
IcoStep ==
  /\ pc = "ico"
  /\ LET image == resizeAndApplyRoundedCorners(ICO_SIZES[loopIndex], FALSE)
     IN /\ icoInputBuffers' = Append(icoInputBuffers, image)
        /\ maskCalls' = maskCalls \o MaskCallsOf(image)
  /\ IF loopIndex < Len(ICO_SIZES)
     THEN /\ loopIndex' = loopIndex + 1
          /\ pc' = "ico"
          /\ steps' = Append(steps, "ico")
     ELSE /\ loopIndex' = 0
          /\ pc' = "toIco"
          /\ steps' = Append(steps, "toIco")
  /\ UNCHANGED <<request, radius, originalWidth, originalHeight, zip,
                 failedAt, response, metadata, baseBuffer, maskVars, pageVars>>

\* lines 170-281: toIco resolves; favicon.ico twice, the manifest and the
\* README are added; zip.generateAsync() is awaited
ToIco ==
  /\ pc = "toIco"
  /\ LET icoBuffer == [images |-> icoInputBuffers]
     IN zip' = zip \o
          << [dir |-> "public", name |-> "favicon.ico", kind |-> "ico", content |-> icoBuffer],
             [dir |-> "src/app", name |-> "favicon.ico", kind |-> "ico", content |-> icoBuffer],
             [dir |-> "public", name |-> "site.webmanifest", kind |-> "json",
              content |-> [name |-> appName, short_name |-> shortName,
                           icons |-> <<192, 512>>,
                           theme_color |-> themeColor, background_color |-> themeColor]],
             [dir |-> "", name |-> "README.txt", kind |-> "text",
              content |-> [appName |-> appName, shortName |-> shortName,
                           themeColor |-> themeColor, radius |-> radius,
                           effectiveDisplayRadius |-> effectiveDisplayRadius]] >>
  /\ pc' = "generateAsync"
  /\ steps' = Append(steps, "generateAsync")
  /\ UNCHANGED <<request, radius, originalWidth, originalHeight, loopIndex,
                 icoInputBuffers, maskCalls, failedAt, response, metadata, baseBuffer, maskVars, pageVars>>

\* lines 281-290: the archive is generated and returned
GenerateAsync ==
  /\ pc = "generateAsync"
  /\ response' = [status |-> 200, kind |-> "zip", files |-> zip]
  /\ pc' = "done"
  /\ UNCHANGED <<request, radius, originalWidth, originalHeight, loopIndex, zip,
                 icoInputBuffers, maskCalls, steps, failedAt, metadata, baseBuffer, maskVars, pageVars>>

\* whether the await the handler is suspended at can reject: formData() on a
\* body that is no multipart form, every other await on any request
CanThrow ==
  \/ pc = "formData" /\ request.body = "malformed"
  \/ pc \in {"arrayBuffer", "metadata", "toBuffer", "public", "app", "ico",
             "toIco", "generateAsync"}

\* Mutant: a try/catch inside the loops that skips the failing image and goes on
ThrowSkipsVariant ==
  /\ CanThrow
  /\ failedAt' = Len(steps)
  /\ IF pc \in {"public", "app", "ico"}
     THEN /\ pc' = (IF pc = "public" THEN "app" ELSE IF pc = "app" THEN "ico" ELSE "toIco")
          /\ loopIndex' = 1
          /\ steps' = Append(steps, pc')
          /\ UNCHANGED response
     ELSE /\ pc' = "done"
          /\ response' = JsonError(500)
          /\ UNCHANGED <<loopIndex, steps>>
  /\ UNCHANGED <<request, radius, originalWidth, originalHeight, zip,
                 icoInputBuffers, maskCalls, metadata, baseBuffer, maskVars, pageVars>>

\* lines 291-297: the awaited step rejects; the catch returns the one error response
Throw ==
  /\ CanThrow
  /\ failedAt' = Len(steps)
  /\ response' = JsonError(500)
  /\ pc' = "done"
  /\ UNCHANGED <<request, radius, originalWidth, originalHeight, loopIndex, zip,
                 icoInputBuffers, maskCalls, steps, metadata, baseBuffer, maskVars, pageVars>>

Next ==
  \/ FormData
  \/ ArrayBuffer
  \/ Metadata
  \/ ToBuffer
  \/ PublicStep
  \/ AppStep
  \/ IcoStep
  \/ ToIco
  \/ GenerateAsync
  \/ Throw

Spec == Init /\ [][Next]_vars

(***************************************************************************)
(* Claims about POST (checked under Spec)                                  *)
(***************************************************************************)
Calls == {maskCalls[i] : i \in 1..Len(maskCalls)}
IsForm == request.body = "form"
\* round(a / b), half up, in exact arithmetic (a >= 0, b > 0)
ExactRound(a, b) == (2 * a + b) \div (2 * b)

\* C4: a request whose radius field is 0 has applyRoundedCorners called with
\* effective radius 0 for every variant size (no pixel is made transparent).
C4_ZeroRequestZeroRadius ==
  (IsForm /\ request.radiusStr = [kind |-> "int", val |-> 0]) =>
     \A c \in Calls : c.radius = 0

\* C5: every mask call gets min(round(R * min(tw,th) / ref), floor(min(tw,th)/2)),
\* R the radius after the [0,256] clamp and ref the reference size; it never
\* exceeds floor(min(width,height)/2); a 512x512 source with R = 40 has
\* ref = 192 and its 32x32 variant is masked with radius 7.
C5_EffectiveRadius ==
  \A c \in Calls :
     LET m == Min2(c.targetWidth, c.targetHeight)
     IN /\ c.radius = Min2(ExactRound(radius * m, previewBaseSize), m \div 2)
        /\ c.radius <= Min2(c.width, c.height) \div 2
        /\ (originalWidth = 512 /\ originalHeight = 512 /\ radius = 40) =>
              /\ previewBaseSize = 192
              /\ (c.width = 32 => c.radius = 7)

\* the 512x512, R = 40 request has been answered and its 32x32 variant was
\* masked with radius 7
C5_Witness ==
  /\ response.status = 200
  /\ originalWidth = 512 /\ originalHeight = 512 /\ radius = 40
  /\ \E c \in Calls : c.width = 32 /\ c.height = 32 /\ c.radius = 7

\* the number of files of a complete archive: 7 public PNGs, 2 app PNGs,
\* favicon.ico twice, the manifest and the README
CompleteArchive == Len(PUBLIC_SIZES) + Len(APP_SIZES) + 2 + 1 + 1

\* C6: once a step has thrown the handler is done with the single status-500
\* error response carrying no file, no further step runs, and a response that
\* carries files carries the complete set.
C6_FailFastNoPartial ==
  /\ failedAt # -1 =>
        /\ pc = "done"
        /\ response = [status |-> 500, kind |-> "json", files |-> <<>>]
        /\ Len(steps) = failedAt
  /\ response.status # 200 => response.files = <<>>
  /\ response.status = 200 =>
        /\ failedAt = -1
        /\ Len(response.files) = CompleteArchive
  /\ (pc = "done") <=> (response.status # 0)

\* a step threw after three variants had been put in the archive
C6_Witness ==
  /\ failedAt # -1
  /\ Len(zip) >= 3
  /\ response.status = 500

\* C7 as stated: a file whose type is not image/png, image/jpeg or
\* image/svg+xml is answered 400 and never reaches decoding.
C7_ThreeTypesOnly ==
  (IsForm /\ request.hasFile
     /\ request.type \notin {"image/png", "image/jpeg", "image/svg+xml"}) =>
        /\ Len(steps) = 1
        /\ pc = "done" => response.status = 400

\* C7 amended: a file whose type is not image/png, image/jpeg, image/jpg or
\* image/svg+xml is answered 400 and never reaches decoding.
C7_FourTypesOnly ==
  (IsForm /\ request.hasFile
     /\ request.type \notin {"image/png", "image/jpeg", "image/jpg", "image/svg+xml"}) =>
        /\ Len(steps) = 1
        /\ maskCalls = <<>>
        /\ pc = "done" => response.status = 400

\* an image/gif file of admissible size was rejected
C7_Witness ==
  /\ IsForm /\ request.hasFile /\ request.type = "image/gif"
  /\ request.size <= MAX_FILE_SIZE
  /\ pc = "done" /\ response.status = 400

\* C8: no file or a file above 10*1024*1024 bytes is answered 400 with no
\* decode, resize or mask step run; a step past validation implies the three
\* checks passed; a file of exactly 10*1024*1024 bytes passes the size check.
C8_ValidationBeforeDecode ==
  /\ (IsForm /\ (~request.hasFile \/ request.size > 10 * 1024 * 1024)) =>
        /\ Len(steps) = 1 /\ maskCalls = <<>> /\ zip = <<>>
        /\ pc = "done" => response.status = 400
  /\ Len(steps) > 1 =>
        /\ request.hasFile
        /\ request.size <= 10 * 1024 * 1024
        /\ request.type \in {"image/png", "image/jpeg", "image/jpg", "image/svg+xml"}
  /\ (IsForm /\ request.hasFile /\ request.size = 10 * 1024 * 1024
        /\ request.type \in {"image/png", "image/jpeg", "image/jpg", "image/svg+xml"}
        /\ pc # "formData") => Len(steps) > 1

\* an oversize file of an allowed type was rejected before any decode
C8_Witness ==
  /\ IsForm /\ request.hasFile /\ request.type = "image/png"
  /\ request.size > 10 * 1024 * 1024
  /\ pc = "done" /\ response.status = 400 /\ Len(steps) = 1

\* C9: the radius that reaches the scaling step lies in [0, 256]: a field
\* below 0 gives 0, a field above 256 gives 256, a missing or non-numeric
\* field gives a value inside the range.
C9_RadiusClamped ==
  radius # -1 =>
     /\ radius >= 0 /\ radius <= 256
     /\ (request.radiusStr.kind = "int" /\ request.radiusStr.val < 0) => radius = 0
     /\ (request.radiusStr.kind = "int" /\ request.radiusStr.val > 256) => radius = 256
     /\ request.radiusStr.kind \in {"null", "empty", "text"} => radius \in 0..256

\* a field of 1000 reached the scaling step as 256
C9_Witness ==
  /\ request.radiusStr = [kind |-> "int", val |-> 1000]
  /\ radius = 256
  /\ maskCalls # <<>>

PublicPngs(files) ==
  {i \in 1..Len(files) : files[i].dir = "public" /\ files[i].kind = "png"}

\* C10: a successful response holds, in public/, exactly one PNG for each of
\* 16, 32, 48, 180, 192, 512, each Cover-resized and masked, and exactly one
\* 1200x630 Contain-resized image that never went through the mask.
C10_VariantTable ==
  response.status = 200 =>
     LET files == response.files
         pub == PublicPngs(files)
         ofSize(w, h) ==
           {i \in pub : files[i].content.width = w /\ files[i].content.height = h}
     IN /\ Cardinality(pub) = 7
        /\ \A sz \in {16, 32, 48, 180, 192, 512} :
              /\ Cardinality(ofSize(sz, sz)) = 1
              /\ \A i \in ofSize(sz, sz) :
                    files[i].content.fit = "cover" /\ files[i].content.masked
        /\ Cardinality(ofSize(1200, 630)) = 1
        /\ \A i \in ofSize(1200, 630) :
              files[i].content.fit = "contain" /\ ~files[i].content.masked
        /\ \A c \in Calls : ~(c.width = 1200 /\ c.height = 630)

\* a successful run at the largest radius
C10_Witness ==
  /\ response.status = 200
  /\ radius = 256
  /\ \E c \in Calls : c.width = 512 /\ c.radius = 256

(***************************************************************************)
(* Claims about the geometry of the mask (checked under SpecMask)          *)
(***************************************************************************)
\* the buffer has no fully transparent pixel, so alpha 0 in the result means
\* the mask made the pixel transparent
OpaqueInput == \A p \in Pixels : AlphaAt(data, p[1], p[2]) > 0
MadeTransparent(x, y) == AlphaAt(result, x, y) = 0

\* C12: for a square buffer and 0 <= r <= floor(width/2), pixel (x,y) is made
\* transparent if and only if its 90-degree rotation (width-1-y, x) is.
C12_RotationSymmetry ==
  (maskPc = "masked" /\ width = height /\ maskRadius <= HalfMin /\ OpaqueInput) =>
     \A p \in Pixels :
        MadeTransparent(p[1], p[2]) <=> MadeTransparent(width - 1 - p[2], p[1])

\* a 10x10 buffer masked at r = 5: the corner pixel and its rotations are cut,
\* the pixel on the arc and its rotation are kept
C12_Witness ==
  /\ maskPc = "masked" /\ width = 10 /\ height = 10 /\ maskRadius = 5 /\ OpaqueInput
  /\ MadeTransparent(0, 0) /\ MadeTransparent(9, 0)
  /\ MadeTransparent(9, 9) /\ MadeTransparent(0, 9)
  /\ ~MadeTransparent(2, 1) /\ ~MadeTransparent(8, 2)

CornersOf(x, y) == {c \in Corners : CornerGuard(c, x, y, width, height, maskRadius)}
SquaresDisjoint == \A p \in Pixels : Cardinality(CornersOf(p[1], p[2])) <= 1
\* every column and every row of the image meets a corner square
NoLineBetween ==
  /\ \A x \in 0..(width - 1) : \E y \in 0..(height - 1) : CornersOf(x, y) # {}
  /\ \A y \in 0..(height - 1) : \E x \in 0..(width - 1) : CornersOf(x, y) # {}

\* C13 as stated: for a square buffer of every width w and r = floor(w/2) no
\* pixel lies in two corner squares and no row or column lies between two
\* neighbouring corner squares.
C13_MeetAtMidlines ==
  (width = height /\ maskRadius = width \div 2) => SquaresDisjoint /\ NoLineBetween

\* C13 amended: for a square buffer and r = floor(w/2) no pixel lies in two
\* corner squares, and for even w no row or column lies between two
\* neighbouring corner squares.
C13_MeetAtMidlinesEven ==
  (width = height /\ maskRadius = width \div 2) =>
     /\ SquaresDisjoint
     /\ width % 2 = 0 => NoLineBetween

\* a 10x10 buffer masked at the maximal radius 5
C13_Witness ==
  /\ maskPc = "masked" /\ width = 10 /\ height = 10 /\ maskRadius = 5
  /\ CornersOf(4, 4) = {"TL"} /\ CornersOf(5, 4) = {"TR"}
  /\ CornersOf(4, 5) = {"BL"} /\ CornersOf(5, 5) = {"BR"}

(***************************************************************************)
(* Further claims about POST (checked under Spec)                          *)
(***************************************************************************)
IcoFiles(files) == {i \in 1..Len(files) : files[i].kind = "ico"}

\* C11: a successful response holds favicon.ico in public/ and in src/app/
\* with identical contents, built from exactly three images of sizes 16, 32,
\* 48 in that order, each with the fit and effective radius of the public PNG
\* of the same size.
C11_IcoContainer ==
  response.status = 200 =>
     LET files == response.files
         ico == IcoFiles(files)
     IN /\ {files[i].dir : i \in ico} = {"public", "src/app"}
        /\ Cardinality(ico) = 2
        /\ \A i \in ico : files[i].name = "favicon.ico"
        /\ \A i, j \in ico : files[i].content = files[j].content
        /\ \A i \in ico :
              LET imgs == files[i].content.images
              IN /\ [k \in 1..Len(imgs) |-> <<imgs[k].width, imgs[k].height>>]
                      = << <<16, 16>>, <<32, 32>>, <<48, 48>> >>
                 /\ \A k \in 1..Len(imgs) :
                       \E j \in PublicPngs(files) :
                          /\ files[j].content.width = imgs[k].width
                          /\ files[j].content.height = imgs[k].height
                          /\ files[j].content.fit = imgs[k].fit
                          /\ files[j].content.masked = imgs[k].masked
                          /\ files[j].content.radius = imgs[k].radius

\* a successful run whose 16, 32 and 48 images were masked at 3, 7 and 10
C11_Witness ==
  /\ response.status = 200
  /\ \E i \in IcoFiles(response.files) :
        LET imgs == response.files[i].content.images
        IN Len(imgs) = 3 /\ imgs[1].radius = 3 /\ imgs[2].radius = 7 /\ imgs[3].radius = 10

TargetSizes == {16, 32, 48, 180, 192, 512} \cup (1..MaxTarget)
\* the effective radius the route computes for a square target of size S
EffectiveRadiusFor(S) == resizeAndApplyRoundedCorners(S, FALSE).radius

\* C14: with the requested radius and the reference size of a run fixed, the
\* effective radius never decreases when the target size grows.
C14_MonotonicInSize ==
  pc = "generateAsync" =>
     \A S1 \in TargetSizes, S2 \in TargetSizes :
        S1 <= S2 => EffectiveRadiusFor(S1) <= EffectiveRadiusFor(S2)

\* a run with R = 40 at reference 192: the radius grows 3, 7, 10 with the
\* size and is held at the half dimension for size 1..2
C14_Witness ==
  /\ pc = "generateAsync" /\ radius = 40 /\ previewBaseSize = 192
  /\ EffectiveRadiusFor(16) = 3 /\ EffectiveRadiusFor(32) = 7
  /\ EffectiveRadiusFor(48) = 10 /\ EffectiveRadiusFor(512) = 107
  /\ EffectiveRadiusFor(2) = 0 /\ EffectiveRadiusFor(3) = 1

FileNamed(files, name) == {i \in 1..Len(files) : files[i].name = name}
Written(field, fallback) == IF field.present /\ field.val # "" THEN field.val ELSE fallback

\* C15 as stated: every supplied value of appName, shortName, themeColor is
\* written unmodified into the manifest and the README.
C15_PassThrough ==
  response.status = 200 =>
     \A i \in FileNamed(response.files, "site.webmanifest") \cup
              FileNamed(response.files, "README.txt") :
        LET c == response.files[i].content
            n == IF response.files[i].kind = "json" THEN c.name ELSE c.appName
            s == IF response.files[i].kind = "json" THEN c.short_name ELSE c.shortName
            t == IF response.files[i].kind = "json" THEN c.theme_color ELSE c.themeColor
        IN /\ request.appName.present => n = request.appName.val
           /\ request.shortName.present => s = request.shortName.val
           /\ request.themeColor.present => t = request.themeColor.val

\* C15 amended: every non-empty supplied value is written unmodified; an
\* absent or empty field is written as its default My App, App, #6366f1.
C15_PassThroughOrDefault ==
  response.status = 200 =>
     /\ FileNamed(response.files, "site.webmanifest") # {}
     /\ FileNamed(response.files, "README.txt") # {}
     /\ \A i \in FileNamed(response.files, "site.webmanifest") :
           LET c == response.files[i].content
           IN /\ c.name = Written(request.appName, "My App")
              /\ c.short_name = Written(request.shortName, "App")
              /\ c.theme_color = Written(request.themeColor, "#6366f1")
     /\ \A i \in FileNamed(response.files, "README.txt") :
           LET c == response.files[i].content
           IN /\ c.appName = Written(request.appName, "My App")
              /\ c.shortName = Written(request.shortName, "App")
              /\ c.themeColor = Written(request.themeColor, "#6366f1")

\* a successful run with three different non-empty texts
C15_Witness ==
  /\ response.status = 200
  /\ request.appName = Given("Acme Tools")
  /\ request.shortName = Given("Acme")
  /\ \E i \in FileNamed(response.files, "site.webmanifest") :
        response.files[i].content.short_name = "Acme"

\* C17: the radius the README reports for 512px equals the effective radius
\* applyRoundedCorners was called with for the 512x512 variant.
C17_ReadmeRadius ==
  response.status = 200 =>
     \A i \in FileNamed(response.files, "README.txt") :
        /\ \E c \in Calls : c.width = 512 /\ c.height = 512
        /\ \A c \in Calls :
              (c.width = 512 /\ c.height = 512) =>
                 response.files[i].content.effectiveDisplayRadius = c.radius

\* a run where the clamp at 256 decides both values (R = 256, reference 100)
C17_Witness ==
  /\ response.status = 200 /\ radius = 256 /\ previewBaseSize = 100
  /\ \E i \in FileNamed(response.files, "README.txt") :
        response.files[i].content.effectiveDisplayRadius = 256

\* C20: once metadata has resolved, the reference size is an integer in
\* [1, 192], also when metadata reports no width or height, and every scaled
\* radius handed to the mask is >= 0.
C20_ReferenceSizeRange ==
  Len(steps) >= 4 =>
     /\ previewBaseSize \in 1..192
     /\ \A c \in Calls : c.radius \in 0..(Min2(c.width, c.height) \div 2)

\* metadata without width and height: the reference size is 192 and the
\* variants were masked
C20_Witness ==
  /\ Len(steps) >= 4
  /\ metadata = [width |-> 0, height |-> 0]
  /\ previewBaseSize = 192
  /\ response.status = 200
  /\ \E c \in Calls : c.radius > 0

(***************************************************************************)
(* The mask on Buffer objects together with the POST pipeline (C16)        *)
(***************************************************************************)
InitAll == Init \/ InitMask

NextAll == Next \/ NextMask

SpecAll == InitAll /\ [][NextAll]_vars

\* every image computed so far in the run: zip entries and ICO inputs
ImagesSoFar ==
  {zip[i].content : i \in {j \in 1..Len(zip) : zip[j].kind = "png"}}
     \cup {icoInputBuffers[i] : i \in 1..Len(icoInputBuffers)}

MAX_FILE_SIZE_Page == 10 * 1024 * 1024

\* Mutant: the client's list without image/jpg
validTypesPageNoJpg == {"image/png", "image/jpeg", "image/svg+xml"}

\* page.tsx line 29 (handleFile's own list)
validTypesPage == {"image/png", "image/jpeg", "image/jpg", "image/svg+xml"}

\* the files a user can pick or drop
SelectableFiles ==
  {[type |-> t, size |-> sz, present |-> TRUE] : t \in FileTypes, sz \in FileSizes}

\* the messages of setError: the two of handleFile (lines 31, 37), the text
\* of errorData.error as the route sends it (route.ts:39-48, 294; "" for an
\* empty error.message), the fallback of line 99, the message of a thrown
\* Error and the fallback of line 120 for a thrown non-Error
TypeMessage == "select a PNG, JPG or SVG file"
SizeMessage == "file size must be 10MB or less"
ServerErrors == {"only PNG, JPG or SVG are supported", "Input buffer is invalid", ""}
GenerateFailed == "generation failed"
ThrownMessages == {"Failed to fetch"}
ErrorOccurred == "an error occurred"

\* handleFile's checks, lines 29-39: the path taken, type first, then size
handleFileCheck(f) ==
  IF f.type \notin validTypesPage THEN "badType"
  ELSE IF f.size > MAX_FILE_SIZE_Page THEN "tooLarge"
  ELSE "stored"

\* err instanceof Error ? err.message : fallback (line 120); thrown is a
\* record [isError, message]
CaughtMessage(thrown) == IF thrown.isError THEN thrown.message ELSE ErrorOccurred

Thrown == {[isError |-> TRUE, message |-> m] : m \in ThrownMessages}
            \cup {[isError |-> FALSE, message |-> ""]}

InitPage ==
  /\ file = NoFile
  /\ error = "null"
  /\ generatedCode = "null"
  /\ isGenerating = FALSE
  /\ pagePc = "idle"
  /\ selectedFile = NoFile
  /\ lastPath = "none"
  /\ PostIdle
  /\ MaskIdle

\* handleFile(selectedFile), lines 24-49 (called by handleDrop and
\* handleFileSelect): clears error and generatedCode, then checks and stores
HandleFile ==
  /\ pagePc # "off"
  /\ \E f \in SelectableFiles :
        /\ selectedFile' = f
        /\ lastPath' = handleFileCheck(f)
        /\ generatedCode' = "null"
        /\ error' = CASE handleFileCheck(f) = "badType"  -> TypeMessage
                      [] handleFileCheck(f) = "tooLarge" -> SizeMessage
                      [] OTHER -> "null"
        /\ file' = IF handleFileCheck(f) = "stored" THEN f ELSE file
  /\ UNCHANGED <<isGenerating, pagePc, postVars, maskVars>>

\* handleReset, lines 187-195
HandleReset ==
  /\ pagePc # "off"
  /\ file' = NoFile
  /\ error' = "null"
  /\ generatedCode' = "null"
  /\ lastPath' = "reset"
  /\ UNCHANGED <<isGenerating, pagePc, selectedFile, postVars, maskVars>>

\* the button of lines 395-398 (disabled={!file || isGenerating}) clicked:
\* handleGenerate runs up to await fetch(..), lines 78-95
HandleGenerate ==
  /\ pagePc # "off"
  /\ file.present
  /\ ~isGenerating
  /\ isGenerating' = TRUE
  /\ error' = "null"
  /\ pagePc' = "fetch"
  /\ lastPath' = "generate"
  /\ UNCHANGED <<file, generatedCode, selectedFile, postVars, maskVars>>

\* fetch resolves with response.ok: on to await response.blob() (line 103)
FetchOk ==
  /\ pagePc = "fetch"
  /\ pagePc' = "blob"
  /\ UNCHANGED <<file, error, generatedCode, isGenerating, selectedFile, lastPath,
                 postVars, maskVars>>

\* fetch resolves with !response.ok: on to await response.json() (line 98)
FetchNotOk ==
  /\ pagePc = "fetch"
  /\ pagePc' = "json"
  /\ UNCHANGED <<file, error, generatedCode, isGenerating, selectedFile, lastPath,
                 postVars, maskVars>>

\* Mutant: a rejection caught without the finally block
AwaitRejectsNoFinally ==
  /\ pagePc \in {"fetch", "json", "blob"}
  /\ \E thrown \in Thrown : error' = CaughtMessage(thrown)
  /\ pagePc' = "idle"
  /\ lastPath' = "threw"
  /\ UNCHANGED <<file, generatedCode, isGenerating, selectedFile, postVars, maskVars>>

\* fetch, response.json() or response.blob() rejects: catch (line 120), then
\* finally (line 122)
AwaitRejects ==
  /\ pagePc \in {"fetch", "json", "blob"}
  /\ \E thrown \in Thrown : error' = CaughtMessage(thrown)
  /\ isGenerating' = FALSE
  /\ pagePc' = "idle"
  /\ lastPath' = "threw"
  /\ UNCHANGED <<file, generatedCode, selectedFile, postVars, maskVars>>

\* response.json() resolves: throw new Error(errorData.error || fallback)
\* (line 99), caught at line 120, then finally
JsonResolves ==
  /\ pagePc = "json"
  /\ \E text \in ServerErrors :
        error' = CaughtMessage([isError |-> TRUE,
                                message |-> IF text = "" THEN GenerateFailed ELSE text])
  /\ isGenerating' = FALSE
  /\ pagePc' = "idle"
  /\ lastPath' = "notOk"
  /\ UNCHANGED <<file, generatedCode, selectedFile, postVars, maskVars>>

\* response.blob() resolves: download, setGeneratedCode (lines 104-118),
\* then finally
BlobResolves ==
  /\ pagePc = "blob"
  /\ generatedCode' = "code"
  /\ isGenerating' = FALSE
  /\ pagePc' = "idle"
  /\ lastPath' = "ok"
  /\ UNCHANGED <<file, error, selectedFile, postVars, maskVars>>

NextPage ==
  \/ HandleFile
  \/ HandleReset
  \/ HandleGenerate
  \/ FetchOk
  \/ FetchNotOk
  \/ AwaitRejects
  \/ JsonResolves
  \/ BlobResolves

SpecPage == InitPage /\ [][NextPage]_vars

\* every awaited promise settles: some continuation of a pending await runs
Settle == FetchOk \/ FetchNotOk \/ AwaitRejects \/ JsonResolves \/ BlobResolves

SpecPageFair == SpecPage /\ WF_vars(Settle)

\* the form POST would receive for a file
UploadOf(f) == [body |-> "form", hasFile |-> TRUE, size |-> f.size, type |-> f.type]

\* C18: handleFile stores a file exactly if POST would not answer it with a
\* 400 validation error.
C18_ClientServerAgree ==
  lastPath \in {"stored", "badType", "tooLarge"} =>
     /\ lastPath = "stored" <=> Validate(UploadOf(selectedFile)) = 0
     /\ lastPath = "stored" => file = selectedFile
     /\ lastPath # "stored" => file # selectedFile

\* an image/jpg of exactly MAX_FILE_SIZE bytes is stored, the boundary both
\* sides accept
C18_Witness ==
  /\ lastPath = "stored"
  /\ file = selectedFile
  /\ selectedFile.type = "image/jpg"
  /\ selectedFile.size = MAX_FILE_SIZE

InFlight == pagePc \in {"fetch", "json", "blob"}

\* C19: a handleGenerate started with a file selected holds isGenerating
\* true while it is pending and eventually sets it back to false, whether
\* the response was ok, was an error status, or an await threw;
\* generatedCode is set only where the response was ok and error is set only
\* on the failing paths.
C19_GenerateLifecycle ==
  /\ [](pagePc # "off" => (InFlight <=> isGenerating))
  /\ (isGenerating ~> ~isGenerating)
  /\ [][(pagePc = "idle" /\ pagePc' # "idle") => (file.present /\ isGenerating')]_vars
  /\ [][(generatedCode' # generatedCode /\ generatedCode' # "null")
           => (pagePc = "blob" /\ lastPath' = "ok")]_vars
  /\ [][(InFlight /\ pagePc' = "idle") =>
           IF lastPath' = "ok"
           THEN error' = error /\ generatedCode' = "code"
           ELSE /\ lastPath' \in {"notOk", "threw"}
                /\ error' \notin {"null", ""}
                /\ generatedCode' = generatedCode]_vars

\* a generate whose response was not ok has finished: the fallback message
\* is shown, isGenerating is false again and no code was generated
C19_Witness ==
  /\ lastPath = "notOk"
  /\ pagePc = "idle"
  /\ ~isGenerating
  /\ file.present
  /\ error = GenerateFailed
  /\ generatedCode = "null"

(***************************************************************************)
(* Further claims about applyRoundedCorners (checked under SpecMask)       *)
(***************************************************************************)
\* pixel (x, y) lies in the outermost row or column of the image
OnBorder(x, y) == x = 0 \/ y = 0 \/ x = width - 1 \/ y = height - 1

\* C21: for 1 <= r <= floor(min(width,height)/2) every pixel of the outermost
\* row or column that lies inside a corner square is made transparent; so in
\* a square buffer of even width w masked at r = w/2 every border pixel has
\* alpha 0.
C21_BorderCut ==
  (maskPc = "masked" /\ maskRadius >= 1 /\ maskRadius <= HalfMin) =>
     /\ \A p \in Pixels :
           (OnBorder(p[1], p[2]) /\ InCornerSquare(p[1], p[2], maskRadius))
              => AlphaAt(result, p[1], p[2]) = 0
     /\ (width = height /\ width % 2 = 0 /\ maskRadius * 2 = width) =>
           \A p \in Pixels : OnBorder(p[1], p[2]) => AlphaAt(result, p[1], p[2]) = 0

\* an opaque 6x6 buffer masked at r = 3: the whole border is cut, also the
\* pixels (2, 0) and (3, 0) next to the midline, and the centre is kept
C21_Witness ==
  /\ maskPc = "masked" /\ width = 6 /\ height = 6 /\ maskRadius = 3
  /\ \A p \in Pixels : AlphaAt(data, p[1], p[2]) = 255
  /\ AlphaAt(result, 2, 0) = 0 /\ AlphaAt(result, 3, 0) = 0
  /\ AlphaAt(result, 0, 3) = 0 /\ AlphaAt(result, 5, 2) = 0
  /\ AlphaAt(result, 2, 2) = 255

\* C22: every output alpha is the input alpha or 0, and a second application
\* with the same width, height and radius returns a buffer byte-identical to
\* the result of the first.
C22_Idempotent ==
  /\ maskPc \in {"masked", "remasked"} =>
        /\ DOMAIN result = DOMAIN data
        /\ \A p \in Pixels :
              AlphaAt(result, p[1], p[2]) \in {AlphaAt(data, p[1], p[2]), 0}
  /\ maskPc = "remasked" =>
        /\ DOMAIN again = DOMAIN result
        /\ \A i \in DOMAIN result : again[i] = result[i]
        /\ heap[resultRef] = again

\* a second call on a result in which the first call cleared a corner pixel
\* of alpha 255 and kept a pixel of alpha below 255 elsewhere
C22_Witness ==
  /\ maskPc = "remasked" /\ maskRadius >= 2
  /\ AlphaAt(data, 0, 0) = 255
  /\ AlphaAt(result, 0, 0) = 0 /\ AlphaAt(again, 0, 0) = 0
  /\ \E p \in Pixels :
        /\ AlphaAt(data, p[1], p[2]) \in 1..254
        /\ AlphaAt(again, p[1], p[2]) = AlphaAt(data, p[1], p[2])

====
